---- MODULE Spec2Model ----
(***************************************************************************)
(* Model of the QueueGuard number generator: a fixed-width binary record   *)
(* store, one file data.bin per primary key, holding a FileHeader followed *)
(* by NumberStatusFilename records.                                        *)
(*                                                                         *)
(* Files are modelled byte by byte, with the layout encoding/binary gives  *)
(* them (big-endian uint64 fields), because the code addresses records by  *)
(* byte offset and shares one file offset per cached handle.               *)
(***************************************************************************)
EXTENDS Integers, Sequences, FiniteSets, TLC

(***************************************************************************)
(* Bounds of the model.                                                    *)
(***************************************************************************)
NumKeys == 1
MaxAppends == 2
MaxNum == 3
MaxList == 2
MaxStatus == 1
NumProcs == 3

Keys == 1..NumKeys
Numbers == 0..MaxNum
StatusBytes == 0..MaxStatus
Procs == 1..NumProcs

(***************************************************************************)
(* Binary layout.                                                          *)
(***************************************************************************)
headerSize == 16
recordSize == 45
uuidLen == 36

Min(a, b) == IF a < b THEN a ELSE b
Max(a, b) == IF a > b THEN a ELSE b

Zeros(n) == [i \in 1..n |-> 0]

\* binary.BigEndian encoding of a uint64 (the model only encodes values < 2^32)
U64(n) ==
    [i \in 1..8 |->
        CASE i = 8 -> n % 256
          [] i = 7 -> (n \div 256) % 256
          [] i = 6 -> (n \div 65536) % 256
          [] i = 5 -> (n \div 16777216) % 256
          [] OTHER -> 0]

RECURSIVE U64IncAt(_, _)
U64IncAt(b, i) ==
    IF i = 0 THEN b
    ELSE IF b[i] = 255 THEN U64IncAt([b EXCEPT ![i] = 0], i - 1)
    ELSE [b EXCEPT ![i] = b[i] + 1]

\* header.TotalRecords++ on a uint64 (wraps at 2^64)
U64Inc(b) == U64IncAt(b, 8)

\* a > b on uint64 values given by their big-endian bytes
U64Gt(a, b) == \E i \in 1..8 : a[i] > b[i] /\ \A j \in 1..(i - 1) : a[j] = b[j]

\* uuid.UUID.String(): xxxxxxxx-xxxx-4xxx-8xxx-xxxxxxxxxxxx, 36 ASCII bytes.
\* The t-th value the generator returns has the hex digit of t in every free place.
HexChar(t) == IF t % 16 < 10 THEN 48 + (t % 16) ELSE 87 + (t % 16)
UUIDString(t) ==
    [i \in 1..uuidLen |->
        CASE i \in {9, 14, 19, 24} -> 45
          [] i = 15 -> 52
          [] i = 20 -> 56
          [] OTHER -> HexChar(t)]

ZeroHeader == [TotalRecords |-> U64(0), LastUpdated |-> U64(0)]
DecodeHeader(bytes) ==
    [TotalRecords |-> SubSeq(bytes, 1, 8), LastUpdated |-> SubSeq(bytes, 9, 16)]
EncodeHeader(h) == h.TotalRecords \o h.LastUpdated

DecodeRecord(bytes) ==
    [Number |-> SubSeq(bytes, 1, 8), Status |-> bytes[9],
     Filename |-> SubSeq(bytes, 10, recordSize)]
EncodeRecord(r) == r.Number \o <<r.Status>> \o r.Filename

\* offset := headerSize + (int64(number)-1)*recordSize
RecordOffset(number) == headerSize + (number - 1) * recordSize
StatusOffset(number) == RecordOffset(number) + 8

(***************************************************************************)
(* Files: io.ReadFull at an offset, and a write at an offset (a write past *)
(* end-of-file leaves a hole of zero bytes).                               *)
(***************************************************************************)
ReadFull(data, off, n) ==
    LET avail == Max(0, Min(n, Len(data) - off))
    IN  [bytes |-> SubSeq(data, off + 1, off + avail),
         off   |-> off + avail,
         err   |-> IF avail = n THEN "" ELSE IF avail = 0 THEN "EOF" ELSE "ErrUnexpectedEOF"]

WriteAt(data, off, bytes) ==
    IF off >= Len(data)
    THEN data \o Zeros(off - Len(data)) \o bytes
    ELSE SubSeq(data, 1, off) \o bytes \o SubSeq(data, off + Len(bytes) + 1, Len(data))

(***************************************************************************)
(* State.                                                                  *)
(*   dirs[k]      the key directory basePath/k exists                      *)
(*   files[k]     basePath/k/data.bin: whether it exists, and its bytes    *)
(*   fileCache[k] ng.fileCache: the cached *os.File of k, with the file    *)
(*                offset all users of the handle share                     *)
(*   locks        the keys of ng.locks                                     *)
(*   nextTok      how many values uuid.NewRandom has returned              *)
(*   appended[k]  number of AppendRecord calls on k that returned success  *)
(*   lock         the goroutine holding ng.lock, 0 when it is free          *)
(*   mutex[k]     the goroutine holding the mutex ng.locks[k], 0 when free  *)
(*   procs[p]     goroutine p: the call it runs, its position in it and its *)
(*                local variables                                           *)
(*   vmo          the sharded store of package vmoformat: its shard files   *)
(*                on disk and the VMOFiles object of the running process    *)
(***************************************************************************)
VARIABLES dirs, files, fileCache, locks, nextTok, appended, lock, mutex, procs, vmo,
          durable

vars == <<dirs, files, fileCache, locks, nextTok, appended, lock, mutex, procs, vmo,
          durable>>

\* files[k] is what the file system shows the process (the page cache); durable[k]
\* is what stable storage holds of it.  Only the crash specification below moves
\* durable; elsewhere it keeps its initial value.
conc == <<lock, mutex, procs>>

NoFile == [exists |-> FALSE, data |-> <<>>]
NoVMO == [Files |-> <<>>, disk |-> <<>>, panicked |-> FALSE]
NoHandle == [cached |-> FALSE, off |-> 0, rw |-> FALSE]
Idle == [op |-> "none", pc |-> "idle"]

\* What one operation on key k can see and change.
View(k) ==
    [dir |-> dirs[k], exists |-> files[k].exists, data |-> files[k].data,
     cached |-> fileCache[k].cached, off |-> fileCache[k].off, rw |-> fileCache[k].rw,
     haslock |-> k \in locks]

Result(K, ret, err) == [K |-> K, ret |-> ret, err |-> err]

\* ng.ensureFileOpen: os.OpenFile(path, O_RDWR|O_CREATE) unless the key is cached.
\* The open fails when the key directory does not exist.
ensureFileOpen(K) ==
    IF K.cached THEN Result(K, 0, "")
    ELSE IF ~K.dir THEN Result(K, 0, "ENOENT")
    ELSE Result([K EXCEPT !.exists = TRUE, !.cached = TRUE, !.off = 0, !.rw = TRUE,
                          !.haslock = TRUE], 0, "")

\* file.Seek(offset, io.SeekStart): a negative offset is an error
SeekErr(offset) == offset < 0

GetLastNumberRun(K) ==
    LET e == ensureFileOpen(K) IN
    IF e.err # "" THEN Result(e.K, U64(0), e.err)
    ELSE LET rd == ReadFull(e.K.data, 0, headerSize)
             K1 == [e.K EXCEPT !.off = rd.off]
         IN  IF rd.err # "" THEN Result(K1, U64(0), rd.err)
             ELSE Result(K1, DecodeHeader(rd.bytes).TotalRecords, "")

GetLastUpdateNumberRun(K) ==
    LET e == ensureFileOpen(K) IN
    IF e.err # "" THEN Result(e.K, U64(0), e.err)
    ELSE LET rd == ReadFull(e.K.data, 0, headerSize)
             K1 == [e.K EXCEPT !.off = rd.off]
         IN  IF rd.err # "" THEN Result(K1, U64(0), rd.err)
             ELSE Result(K1, DecodeHeader(rd.bytes).LastUpdated, "")

\* The record read shared by GetStatus and GetFilename, after the header read:
\* seek to the record's offset and read one record.
ReadRecordAt(K, number) ==
    IF SeekErr(RecordOffset(number)) THEN [K |-> K, rec |-> DecodeRecord(Zeros(recordSize)), err |-> "EINVAL"]
    ELSE LET rd == ReadFull(K.data, RecordOffset(number), recordSize)
         IN  [K |-> [K EXCEPT !.off = rd.off],
              rec |-> IF rd.err = "" THEN DecodeRecord(rd.bytes) ELSE DecodeRecord(Zeros(recordSize)),
              err |-> rd.err]

\* The header read of GetStatus, GetFilename and UpdateStatuses: binary.Read on the
\* cached handle at its current offset (no Seek precedes it).
ReadHeaderHere(K) == ReadFull(K.data, K.off, headerSize)

GetStatusRun(K, number) ==
    LET e == ensureFileOpen(K) IN
    IF e.err # "" THEN Result(e.K, 0, e.err)
    ELSE LET hd == ReadHeaderHere(e.K)
             K1 == [e.K EXCEPT !.off = hd.off]
         IN  IF hd.err # "" THEN Result(K1, 0, hd.err)
             ELSE LET r == ReadRecordAt(K1, number)
                  IN  IF r.err # "" THEN Result(r.K, 0, r.err)
                      ELSE Result(r.K, r.rec.Status, "")

GetFilenameRun(K, number) ==
    LET e == ensureFileOpen(K) IN
    IF e.err # "" THEN Result(e.K, <<>>, e.err)
    ELSE LET hd == ReadHeaderHere(e.K)
             K1 == [e.K EXCEPT !.off = hd.off]
         IN  IF hd.err # "" THEN Result(K1, <<>>, hd.err)
             ELSE IF U64Gt(U64(number), DecodeHeader(hd.bytes).TotalRecords)
                  THEN Result(K1, <<>>, "exceeds total records")
             ELSE LET r == ReadRecordAt(K1, number)
                  IN  IF r.err # "" THEN Result(r.K, <<>>, r.err)
                      ELSE Result(r.K, r.rec.Filename, "")

\* The header AppendRecord works on: read from offset 0 of a handle it has just
\* opened; io.EOF (an empty file) leaves the zero header, any other error returns.
AppendHeader(data) ==
    LET rd == ReadFull(data, 0, headerSize)
    IN  [err |-> IF rd.err = "EOF" THEN "" ELSE rd.err,
         header |-> IF rd.err = "" THEN DecodeHeader(rd.bytes) ELSE ZeroHeader]

\* AppendRecord: under the key's mutex, on a handle of its own (O_RDWR|O_CREATE),
\* closed on return. tok is the value uuid.NewRandom returns.
AppendRecordRun(K, status, tok) ==
    LET K0 == [K EXCEPT !.haslock = TRUE, !.dir = TRUE, !.exists = TRUE]
        ah == AppendHeader(K0.data)
    IN  IF ah.err # "" THEN Result(K0, U64(0), ah.err)
        ELSE LET total  == U64Inc(ah.header.TotalRecords)
                 header == [TotalRecords |-> total,
                            LastUpdated  |-> IF total = U64(1) THEN U64(0)
                                             ELSE ah.header.LastUpdated]
                 d1     == WriteAt(K0.data, 0, EncodeHeader(header))
                 record == [Number |-> total, Status |-> status, Filename |-> UUIDString(tok)]
                 d2     == WriteAt(d1, Len(d1), EncodeRecord(record))   \* Seek(0, SEEK_END)
             IN  Result([K0 EXCEPT !.data = d2], total, "")

\* The loop of UpdateStatuses: for each number, seek to its status byte and write 1.
\* st = [data, off, err]; a failed Seek returns, leaving the earlier writes.
RECURSIVE WriteStatuses(_, _)
WriteStatuses(st, numbers) ==
    IF numbers = <<>> \/ st.err # "" THEN st
    ELSE LET offset == StatusOffset(Head(numbers))
         IN  IF SeekErr(offset) THEN [st EXCEPT !.err = "EINVAL"]
             ELSE WriteStatuses([data |-> WriteAt(st.data, offset, <<1>>),
                                 off |-> offset + 1, err |-> ""], Tail(numbers))

UpdateStatusesRun(K, numbers) ==
    IF Len(numbers) = 0 THEN Result(K, 0, "")
    ELSE LET e == ensureFileOpen(K) IN
    IF e.err # "" THEN Result(e.K, 0, e.err)
    ELSE LET hd == ReadHeaderHere(e.K)
             K1 == [e.K EXCEPT !.off = hd.off, !.haslock = TRUE]
         IN  IF hd.err # "" THEN Result(K1, 0, hd.err)
             ELSE LET st == WriteStatuses([data |-> K1.data, off |-> K1.off, err |-> ""], numbers)
                      K2 == [K1 EXCEPT !.data = st.data, !.off = st.off]
                  IN  IF st.err # "" THEN Result(K2, 0, st.err)
                      ELSE LET header == [DecodeHeader(hd.bytes) EXCEPT
                                            !.LastUpdated = U64(numbers[Len(numbers)])]
                           IN  Result([K2 EXCEPT !.data = WriteAt(K2.data, 0, EncodeHeader(header)),
                                                 !.off = headerSize], 0, "")

(***************************************************************************)
(* The store, one call at a time: every action is one whole call of the    *)
(* public operation it is named after.                                     *)
(***************************************************************************)
NumberLists == UNION {[1..n -> Numbers] : n \in 0..MaxList}

\* Store the view of key k back into the state.
Apply(k, K) ==
    /\ dirs' = [dirs EXCEPT ![k] = K.dir]
    /\ files' = [files EXCEPT ![k] = [exists |-> K.exists, data |-> K.data]]
    /\ fileCache' = [fileCache EXCEPT ![k] = [cached |-> K.cached, off |-> K.off, rw |-> K.rw]]
    /\ locks' = IF K.haslock THEN locks \cup {k} ELSE locks

Init ==
    /\ dirs \in [Keys -> BOOLEAN]
    /\ files = [k \in Keys |-> NoFile]
    /\ fileCache = [k \in Keys |-> NoHandle]
    /\ locks = {}
    /\ nextTok = 0
    /\ appended = [k \in Keys |-> 0]
    /\ lock = 0
    /\ mutex = [k \in Keys |-> 0]
    /\ vmo = NoVMO
    /\ durable = files
    /\ procs = [p \in Procs |-> Idle]

AppendRecord(k, status) ==
    /\ appended[k] < MaxAppends
    /\ LET r == AppendRecordRun(View(k), status, nextTok + 1)
       IN  /\ Apply(k, r.K)
           /\ nextTok' = IF r.err = "" THEN nextTok + 1 ELSE nextTok
           /\ appended' = IF r.err = "" THEN [appended EXCEPT ![k] = @ + 1] ELSE appended
           /\ UNCHANGED <<conc, vmo, durable>>

UpdateStatuses(k, numbers) ==
    LET r == UpdateStatusesRun(View(k), numbers)
    IN  /\ Apply(k, r.K)
        /\ UNCHANGED <<nextTok, appended, lock, mutex, procs, vmo, durable>>

GetStatus(k, number) ==
    LET r == GetStatusRun(View(k), number)
    IN  /\ Apply(k, r.K)
        /\ UNCHANGED <<nextTok, appended, lock, mutex, procs, vmo, durable>>

GetFilename(k, number) ==
    LET r == GetFilenameRun(View(k), number)
    IN  /\ Apply(k, r.K)
        /\ UNCHANGED <<nextTok, appended, lock, mutex, procs, vmo, durable>>

GetLastNumber(k) ==
    LET r == GetLastNumberRun(View(k))
    IN  /\ Apply(k, r.K)
        /\ UNCHANGED <<nextTok, appended, lock, mutex, procs, vmo, durable>>

GetLastUpdateNumber(k) ==
    LET r == GetLastUpdateNumberRun(View(k))
    IN  /\ Apply(k, r.K)
        /\ UNCHANGED <<nextTok, appended, lock, mutex, procs, vmo, durable>>

\* Close every cached handle and reset the cache; ng.locks is kept.
CloseAllFiles ==
    /\ fileCache' = [k \in Keys |-> NoHandle]
    /\ UNCHANGED <<dirs, files, locks, nextTok, appended, lock, mutex, procs, vmo, durable>>

\* What the walk of NewNumberGenerator caches for a key: os.OpenFile(path, O_RDWR)
\* of the data.bin it finds, a fresh handle at offset 0.
WalkOpenAtEnd(file) ==
    IF file.exists THEN [cached |-> TRUE, off |-> Len(file.data), rw |-> TRUE] ELSE NoHandle
WalkOpen(file) ==
    IF file.exists THEN [cached |-> TRUE, off |-> 0, rw |-> TRUE] ELSE NoHandle

\* A new NumberGenerator on the same base directory: the walk opens every
\* data.bin it finds and makes a mutex for its key.
NewNumberGenerator ==
    /\ fileCache' = [k \in Keys |-> WalkOpen(files[k])]
    /\ locks' = {k \in Keys : files[k].exists}
    /\ UNCHANGED <<dirs, files, nextTok, appended, lock, mutex, procs, vmo, durable>>

Next ==
    \/ \E k \in Keys, status \in StatusBytes : AppendRecord(k, status)
    \/ \E k \in Keys, numbers \in NumberLists : UpdateStatuses(k, numbers)
    \/ \E k \in Keys, number \in Numbers : GetStatus(k, number)
    \/ \E k \in Keys, number \in Numbers : GetFilename(k, number)
    \/ \E k \in Keys : GetLastNumber(k)
    \/ \E k \in Keys : GetLastUpdateNumber(k)
    \/ CloseAllFiles
    \/ NewNumberGenerator

Spec == Init /\ [][Next]_vars

(***************************************************************************)
(* AppendRecord step by step, for calls that run concurrently.  Each       *)
(* action is one step of goroutine p: a lock operation or one system call  *)
(* with the local computation around it.                                   *)
(***************************************************************************)
Call(name, k, status) ==
    [op |-> name, key |-> k, pc |-> "lock", status |-> status, off |-> 0,
     header |-> ZeroHeader, tok |-> 0, ret |-> U64(0), err |-> ""]

Goto(p, label) == procs' = [procs EXCEPT ![p].pc = label]

\* sync.Mutex: Lock blocks while the mutex is held.
LockFree == lock = 0
MutexFreeNoBlock(k) == TRUE
MutexFree(k) == mutex[k] = 0

\* ng.lock.Lock()
A_Lock(p) ==
    /\ procs[p].op = "AppendRecord" /\ procs[p].pc = "lock"
    /\ LockFree
    /\ lock' = p
    /\ Goto(p, "getmutex")
    /\ UNCHANGED <<dirs, files, fileCache, locks, nextTok, appended, mutex, vmo, durable>>

\* lock, exists := ng.locks[primaryKey]; create it if absent; ng.lock.Unlock()
A_GetMutex(p) ==
    /\ procs[p].op = "AppendRecord" /\ procs[p].pc = "getmutex"
    /\ locks' = locks \cup {procs[p].key}
    /\ lock' = 0
    /\ Goto(p, "lockkey")
    /\ UNCHANGED <<dirs, files, fileCache, nextTok, appended, mutex, vmo, durable>>

\* lock.Lock()
A_LockKey(p) ==
    /\ procs[p].op = "AppendRecord" /\ procs[p].pc = "lockkey"
    /\ MutexFree(procs[p].key)
    /\ mutex' = [mutex EXCEPT ![procs[p].key] = p]
    /\ Goto(p, "mkdir")
    /\ UNCHANGED <<dirs, files, fileCache, locks, nextTok, appended, lock, vmo, durable>>

\* os.Stat(baseDir); os.MkdirAll(baseDir)
A_MkDir(p) ==
    /\ procs[p].op = "AppendRecord" /\ procs[p].pc = "mkdir"
    /\ dirs' = [dirs EXCEPT ![procs[p].key] = TRUE]
    /\ Goto(p, "open")
    /\ UNCHANGED <<files, fileCache, locks, nextTok, appended, lock, mutex, vmo, durable>>

\* os.OpenFile(basePath, O_RDWR|O_CREATE): a handle of its own, at offset 0
A_Open(p) ==
    /\ procs[p].op = "AppendRecord" /\ procs[p].pc = "open"
    /\ files' = [files EXCEPT ![procs[p].key].exists = TRUE]
    /\ procs' = [procs EXCEPT ![p].pc = "readhdr", ![p].off = 0]
    /\ UNCHANGED <<dirs, fileCache, locks, nextTok, appended, lock, mutex, vmo, durable>>

\* binary.Read(file, &header); io.EOF is not an error here
A_ReadHeader(p) ==
    /\ procs[p].op = "AppendRecord" /\ procs[p].pc = "readhdr"
    /\ LET rd == ReadFull(files[procs[p].key].data, procs[p].off, headerSize)
       IN  procs' = [procs EXCEPT
                ![p].off = rd.off,
                ![p].header = IF rd.err = "" THEN DecodeHeader(rd.bytes) ELSE ZeroHeader,
                ![p].err = IF rd.err = "EOF" THEN "" ELSE rd.err,
                ![p].pc = IF rd.err \in {"", "EOF"} THEN "writehdr" ELSE "return"]
    /\ UNCHANGED <<dirs, files, fileCache, locks, nextTok, appended, lock, mutex, vmo, durable>>

\* header.TotalRecords++; Seek(0, SeekStart); binary.Write(file, &header)
A_WriteHeader(p) ==
    /\ procs[p].op = "AppendRecord" /\ procs[p].pc = "writehdr"
    /\ LET k == procs[p].key
           total == U64Inc(procs[p].header.TotalRecords)
           header == [TotalRecords |-> total,
                      LastUpdated  |-> IF total = U64(1) THEN U64(0)
                                       ELSE procs[p].header.LastUpdated]
       IN  /\ files' = [files EXCEPT ![k].data = WriteAt(@, 0, EncodeHeader(header))]
           /\ procs' = [procs EXCEPT ![p].header = header, ![p].off = headerSize,
                                     ![p].pc = "seekend"]
    /\ UNCHANGED <<dirs, fileCache, locks, nextTok, appended, lock, mutex, vmo, durable>>

\* uuid.NewRandom(); file.Seek(0, os.SEEK_END)
A_SeekEnd(p) ==
    /\ procs[p].op = "AppendRecord" /\ procs[p].pc = "seekend"
    /\ nextTok' = nextTok + 1
    /\ procs' = [procs EXCEPT ![p].tok = nextTok + 1,
                              ![p].off = Len(files[procs[p].key].data),
                              ![p].pc = "writerec"]
    /\ UNCHANGED <<dirs, files, fileCache, locks, appended, lock, mutex, vmo, durable>>

\* binary.Write(file, &record)
A_WriteRecord(p) ==
    /\ procs[p].op = "AppendRecord" /\ procs[p].pc = "writerec"
    /\ LET record == [Number |-> procs[p].header.TotalRecords, Status |-> procs[p].status,
                      Filename |-> UUIDString(procs[p].tok)]
       IN  files' = [files EXCEPT ![procs[p].key].data =
                                      WriteAt(@, procs[p].off, EncodeRecord(record))]
    /\ procs' = [procs EXCEPT ![p].off = @ + recordSize, ![p].pc = "return"]
    /\ UNCHANGED <<dirs, fileCache, locks, nextTok, appended, lock, mutex, vmo, durable>>

\* return header.TotalRecords, nil (or 0, err); deferred file.Close(), lock.Unlock()
A_Return(p) ==
    /\ procs[p].op = "AppendRecord" /\ procs[p].pc = "return"
    /\ mutex' = [mutex EXCEPT ![procs[p].key] = 0]
    /\ procs' = [procs EXCEPT
            ![p].ret = IF procs[p].err = "" THEN procs[p].header.TotalRecords ELSE U64(0),
            ![p].pc = "done"]
    /\ appended' = IF procs[p].err = "" THEN [appended EXCEPT ![procs[p].key] = @ + 1]
                   ELSE appended
    /\ UNCHANGED <<dirs, files, fileCache, locks, nextTok, lock, vmo, durable>>

\* n goroutines, each about to call AppendRecord on the same, still empty key.
InitAppend ==
    /\ dirs \in [Keys -> BOOLEAN]
    /\ files = [k \in Keys |-> NoFile]
    /\ fileCache = [k \in Keys |-> NoHandle]
    /\ locks = {}
    /\ nextTok = 0
    /\ appended = [k \in Keys |-> 0]
    /\ lock = 0
    /\ mutex = [k \in Keys |-> 0]
    /\ vmo = NoVMO
    /\ durable = files
    /\ \E n \in 1..NumProcs, k \in Keys :
          procs \in [Procs -> {Call("AppendRecord", k, st) : st \in StatusBytes} \cup {Idle}]
          /\ \A p \in Procs : (procs[p] = Idle) <=> (p > n)

NextAppend ==
    \E p \in Procs :
        \/ A_Lock(p)
        \/ A_GetMutex(p)
        \/ A_LockKey(p)
        \/ A_MkDir(p)
        \/ A_Open(p)
        \/ A_ReadHeader(p)
        \/ A_WriteHeader(p)
        \/ A_SeekEnd(p)
        \/ A_WriteRecord(p)
        \/ A_Return(p)

SpecAppend == InitAppend /\ [][NextAppend]_vars

(***************************************************************************)
(* Every operation of the store step by step, for calls on one key that    *)
(* run concurrently.  A goroutine's local variable file is a pointer to an *)
(* os.File: "nil", "open" (the handle the cache holds) or "closed" (a      *)
(* handle CloseAllFiles has closed; every handle that has left the cache   *)
(* is one).  The offset of the cached handle, fileCache[k].off, is shared  *)
(* by all goroutines that use it.                                          *)
(***************************************************************************)
ConcProcs == 2
ConcNumbers == 1..MaxAppends
ConcLists == {<<n>> : n \in ConcNumbers} \cup {<<1, 2>>}

LookupOps == {"GetStatus", "GetFilename", "GetLastNumber", "GetLastUpdateNumber"}
CachedOps == LookupOps \cup {"UpdateStatuses"}

\* A call of a lookup or of UpdateStatuses: it starts in ensureFileOpen.
CallCached(name, k, number, numbers) ==
    [op |-> name, key |-> k, pc |-> "e_lock", number |-> number, numbers |-> numbers,
     i |-> 1, file |-> "nil", header |-> ZeroHeader, ret |-> <<>>, err |-> ""]

CallClose == [op |-> "CloseAllFiles", pc |-> "c_lock"]

\* The error of a system call on the goroutine's file, "" when the handle is open:
\* a method of a nil *os.File returns os.ErrInvalid, of a closed one os.ErrClosed.
HandleErr(p) ==
    CASE procs[p].file = "nil" -> "ErrInvalid"
      [] procs[p].file = "closed" -> "ErrClosed"
      [] OTHER -> ""

Fail(p, e) == procs' = [procs EXCEPT ![p].err = e, ![p].pc = "done"]

\* _, exists := ng.fileCache[primaryKey]
InCacheNever(k) == FALSE
InCache(k) == fileCache[k].cached

\* ensureFileOpen: ng.lock.Lock(); return at once if the key is in the cache
E_Lock(p) ==
    /\ procs[p].op \in CachedOps /\ procs[p].pc = "e_lock"
    /\ LockFree
    /\ lock' = p
    /\ Goto(p, IF InCache(procs[p].key) THEN "e_unlock" ELSE "e_open")
    /\ UNCHANGED <<dirs, files, fileCache, locks, nextTok, appended, mutex, vmo, durable>>

\* ensureFileOpen: os.OpenFile(filePath, O_RDWR|O_CREATE); cache the handle; make the
\* key's mutex if there is none
E_Open(p) ==
    /\ procs[p].op \in CachedOps /\ procs[p].pc = "e_open"
    /\ LET k == procs[p].key
       IN  IF dirs[k]
           THEN /\ files' = [files EXCEPT ![k].exists = TRUE]
                /\ fileCache' = [fileCache EXCEPT ![k] = [cached |-> TRUE, off |-> 0, rw |-> TRUE]]
                /\ locks' = locks \cup {k}
                /\ Goto(p, "e_unlock")
           ELSE /\ procs' = [procs EXCEPT ![p].err = "ENOENT", ![p].pc = "e_unlock"]
                /\ UNCHANGED <<files, fileCache, locks>>
    /\ UNCHANGED <<dirs, nextTok, appended, lock, mutex, vmo, durable>>

\* ensureFileOpen: return, deferred ng.lock.Unlock()
E_Unlock(p) ==
    /\ procs[p].op \in CachedOps /\ procs[p].pc = "e_unlock"
    /\ lock' = 0
    /\ Goto(p, CASE procs[p].err # "" -> "done"
                 [] procs[p].op = "UpdateStatuses" -> "u_file"
                 [] procs[p].op \in {"GetLastNumber", "GetLastUpdateNumber"} -> "l_seek0"
                 [] OTHER -> "l_readhdr")
    /\ UNCHANGED <<dirs, files, fileCache, locks, nextTok, appended, mutex, vmo, durable>>

\* The goroutine's file after file := ng.fileCache[primaryKey]
Fetched(k) == IF fileCache[k].cached THEN "open" ELSE "nil"

\* GetLastNumber, GetLastUpdateNumber: file := ng.fileCache[primaryKey] (ng.lock is
\* not held); file.Seek(0, io.SeekStart)
L_Seek0(p) ==
    /\ procs[p].op \in LookupOps /\ procs[p].pc = "l_seek0"
    /\ LET k == procs[p].key
       IN  IF Fetched(k) = "nil"
           THEN /\ procs' = [procs EXCEPT ![p].file = "nil", ![p].err = "ErrInvalid",
                                          ![p].pc = "done"]
                /\ UNCHANGED fileCache
           ELSE /\ procs' = [procs EXCEPT ![p].file = "open", ![p].pc = "l_readhdr"]
                /\ fileCache' = [fileCache EXCEPT ![k].off = 0]
    /\ UNCHANGED <<dirs, files, locks, nextTok, appended, lock, mutex, vmo, durable>>

\* binary.Read(file, binary.BigEndian, &header) at the handle's offset; GetStatus and
\* GetFilename fetch file := ng.fileCache[primaryKey] right before it (ng.lock is not
\* held).  GetLastNumber and GetLastUpdateNumber return a field of the header,
\* GetFilename checks number > header.TotalRecords.
L_ReadHeader(p) ==
    /\ procs[p].op \in LookupOps /\ procs[p].pc = "l_readhdr"
    /\ LET k == procs[p].key
           op == procs[p].op
           file == IF op \in {"GetStatus", "GetFilename"} THEN Fetched(k) ELSE procs[p].file
           rd == ReadFull(files[k].data, fileCache[k].off, headerSize)
           header == DecodeHeader(rd.bytes)
       IN  IF file # "open"
           THEN /\ procs' = [procs EXCEPT ![p].file = file, ![p].pc = "done",
                         ![p].err = IF file = "nil" THEN "ErrInvalid" ELSE "ErrClosed"]
                /\ UNCHANGED fileCache
           ELSE /\ fileCache' = [fileCache EXCEPT ![k].off = rd.off]
                /\ procs' = [procs EXCEPT
                      ![p].file = file,
                      ![p].header = IF rd.err = "" THEN header ELSE ZeroHeader,
                      ![p].err = CASE rd.err # "" -> rd.err
                                   [] op = "GetFilename"
                                      /\ U64Gt(U64(procs[p].number), header.TotalRecords)
                                        -> "exceeds total records"
                                   [] OTHER -> "",
                      ![p].ret = CASE rd.err # "" -> <<>>
                                   [] op = "GetLastNumber" -> header.TotalRecords
                                   [] op = "GetLastUpdateNumber" -> header.LastUpdated
                                   [] OTHER -> <<>>,
                      ![p].pc = IF rd.err = "" /\ op \in {"GetStatus", "GetFilename"}
                                   /\ ~(op = "GetFilename"
                                        /\ U64Gt(U64(procs[p].number), header.TotalRecords))
                                THEN "l_seekrec" ELSE "done"]
    /\ UNCHANGED <<dirs, files, locks, nextTok, appended, lock, mutex, vmo, durable>>

\* file.Seek(offset, io.SeekStart) to the record
L_SeekRec(p) ==
    /\ procs[p].op \in LookupOps /\ procs[p].pc = "l_seekrec"
    /\ LET k == procs[p].key
           offset == RecordOffset(procs[p].number)
       IN  IF HandleErr(p) # "" THEN Fail(p, HandleErr(p)) /\ UNCHANGED fileCache
           ELSE IF SeekErr(offset) THEN Fail(p, "EINVAL") /\ UNCHANGED fileCache
           ELSE /\ fileCache' = [fileCache EXCEPT ![k].off = offset]
                /\ Goto(p, "l_readrec")
    /\ UNCHANGED <<dirs, files, locks, nextTok, appended, lock, mutex, vmo, durable>>

\* binary.Read(file, binary.BigEndian, &record) at the handle's offset; return
L_ReadRec(p) ==
    /\ procs[p].op \in LookupOps /\ procs[p].pc = "l_readrec"
    /\ LET k == procs[p].key
           rd == ReadFull(files[k].data, fileCache[k].off, recordSize)
       IN  IF HandleErr(p) # "" THEN Fail(p, HandleErr(p)) /\ UNCHANGED fileCache
           ELSE /\ fileCache' = [fileCache EXCEPT ![k].off = rd.off]
                /\ procs' = [procs EXCEPT
                      ![p].err = rd.err,
                      ![p].ret = CASE rd.err # "" -> <<>>
                                   [] procs[p].op = "GetStatus" -> <<DecodeRecord(rd.bytes).Status>>
                                   [] OTHER -> DecodeRecord(rd.bytes).Filename,
                      ![p].pc = "done"]
    /\ UNCHANGED <<dirs, files, locks, nextTok, appended, lock, mutex, vmo, durable>>

\* UpdateStatuses: ng.lock.Lock(); file := ng.fileCache[primaryKey]; ng.lock.Unlock()
U_File(p) ==
    /\ procs[p].op = "UpdateStatuses" /\ procs[p].pc = "u_file"
    /\ LockFree
    /\ procs' = [procs EXCEPT ![p].file = Fetched(procs[p].key), ![p].pc = "u_getmutex"]
    /\ UNCHANGED <<dirs, files, fileCache, locks, nextTok, appended, lock, mutex, vmo, durable>>

\* lock, exists := ng.locks[primaryKey]; made if absent (ng.lock is not held)
U_GetMutex(p) ==
    /\ procs[p].op = "UpdateStatuses" /\ procs[p].pc = "u_getmutex"
    /\ locks' = locks \cup {procs[p].key}
    /\ Goto(p, "u_lockkey")
    /\ UNCHANGED <<dirs, files, fileCache, nextTok, appended, lock, mutex, vmo, durable>>

\* lock.Lock()
U_LockKey(p) ==
    /\ procs[p].op = "UpdateStatuses" /\ procs[p].pc = "u_lockkey"
    /\ MutexFree(procs[p].key)
    /\ mutex' = [mutex EXCEPT ![procs[p].key] = p]
    /\ Goto(p, "u_readhdr")
    /\ UNCHANGED <<dirs, files, fileCache, locks, nextTok, appended, lock, vmo, durable>>

\* binary.Read(file, binary.BigEndian, &header) at the handle's offset
U_ReadHeader(p) ==
    /\ procs[p].op = "UpdateStatuses" /\ procs[p].pc = "u_readhdr"
    /\ LET k == procs[p].key
           rd == ReadFull(files[k].data, fileCache[k].off, headerSize)
       IN  IF HandleErr(p) # ""
           THEN /\ procs' = [procs EXCEPT ![p].err = HandleErr(p), ![p].pc = "u_return"]
                /\ UNCHANGED fileCache
           ELSE /\ fileCache' = [fileCache EXCEPT ![k].off = rd.off]
                /\ procs' = [procs EXCEPT
                      ![p].header = IF rd.err = "" THEN DecodeHeader(rd.bytes) ELSE ZeroHeader,
                      ![p].err = rd.err,
                      ![p].pc = IF rd.err = "" THEN "u_seek" ELSE "u_return"]
    /\ UNCHANGED <<dirs, files, locks, nextTok, appended, lock, mutex, vmo, durable>>

\* file.Seek(offset, io.SeekStart) to the status byte of numbers[i]
U_Seek(p) ==
    /\ procs[p].op = "UpdateStatuses" /\ procs[p].pc = "u_seek"
    /\ LET k == procs[p].key
           offset == StatusOffset(procs[p].numbers[procs[p].i])
           e == IF HandleErr(p) # "" THEN HandleErr(p)
                ELSE IF SeekErr(offset) THEN "EINVAL" ELSE ""
       IN  IF e # ""
           THEN /\ procs' = [procs EXCEPT ![p].err = e, ![p].pc = "u_return"]
                /\ UNCHANGED fileCache
           ELSE /\ fileCache' = [fileCache EXCEPT ![k].off = offset]
                /\ Goto(p, "u_write")
    /\ UNCHANGED <<dirs, files, locks, nextTok, appended, lock, mutex, vmo, durable>>

\* file.Write([]byte{1}) at the handle's offset; on to the next number
U_Write(p) ==
    /\ procs[p].op = "UpdateStatuses" /\ procs[p].pc = "u_write"
    /\ LET k == procs[p].key
           last == procs[p].i = Len(procs[p].numbers)
       IN  IF HandleErr(p) # ""
           THEN /\ procs' = [procs EXCEPT ![p].err = HandleErr(p), ![p].pc = "u_return"]
                /\ UNCHANGED <<files, fileCache>>
           ELSE /\ files' = [files EXCEPT ![k].data = WriteAt(@, fileCache[k].off, <<1>>)]
                /\ fileCache' = [fileCache EXCEPT ![k].off = @ + 1]
                /\ procs' = [procs EXCEPT ![p].i = @ + 1,
                                          ![p].pc = IF last THEN "u_seek0" ELSE "u_seek"]
    /\ UNCHANGED <<dirs, locks, nextTok, appended, lock, mutex, vmo, durable>>

\* file.Seek(0, io.SeekStart)
U_Seek0(p) ==
    /\ procs[p].op = "UpdateStatuses" /\ procs[p].pc = "u_seek0"
    /\ IF HandleErr(p) # ""
       THEN /\ procs' = [procs EXCEPT ![p].err = HandleErr(p), ![p].pc = "u_return"]
            /\ UNCHANGED fileCache
       ELSE /\ fileCache' = [fileCache EXCEPT ![procs[p].key].off = 0]
            /\ Goto(p, "u_writehdr")
    /\ UNCHANGED <<dirs, files, locks, nextTok, appended, lock, mutex, vmo, durable>>

\* header.LastUpdated = numbers[len(numbers)-1]; binary.Write(file, &header) at the
\* handle's offset
U_WriteHeader(p) ==
    /\ procs[p].op = "UpdateStatuses" /\ procs[p].pc = "u_writehdr"
    /\ LET k == procs[p].key
           header == [procs[p].header EXCEPT
                         !.LastUpdated = U64(procs[p].numbers[Len(procs[p].numbers)])]
       IN  IF HandleErr(p) # ""
           THEN /\ procs' = [procs EXCEPT ![p].err = HandleErr(p), ![p].pc = "u_return"]
                /\ UNCHANGED <<files, fileCache>>
           ELSE /\ files' = [files EXCEPT
                                ![k].data = WriteAt(@, fileCache[k].off, EncodeHeader(header))]
                /\ fileCache' = [fileCache EXCEPT ![k].off = @ + headerSize]
                /\ procs' = [procs EXCEPT ![p].header = header, ![p].pc = "u_return"]
    /\ UNCHANGED <<dirs, locks, nextTok, appended, lock, mutex, vmo, durable>>

\* return file.Sync() (or the earlier error); deferred lock.Unlock()
U_Return(p) ==
    /\ procs[p].op = "UpdateStatuses" /\ procs[p].pc = "u_return"
    /\ mutex' = [mutex EXCEPT ![procs[p].key] = 0]
    /\ procs' = [procs EXCEPT
            ![p].err = IF procs[p].err # "" THEN procs[p].err ELSE HandleErr(p),
            ![p].pc = "done"]
    /\ UNCHANGED <<dirs, files, fileCache, locks, nextTok, appended, lock, vmo, durable>>

\* CloseAllFiles: ng.lock.Lock()
C_Lock(p) ==
    /\ procs[p].op = "CloseAllFiles" /\ procs[p].pc = "c_lock"
    /\ LockFree
    /\ lock' = p
    /\ Goto(p, "c_close")
    /\ UNCHANGED <<dirs, files, fileCache, locks, nextTok, appended, mutex, vmo, durable>>

\* file.Close() for every cached file; ng.fileCache = make(map[string]*os.File);
\* deferred ng.lock.Unlock().  The handles other goroutines hold are now closed.
C_Close(p) ==
    /\ procs[p].op = "CloseAllFiles" /\ procs[p].pc = "c_close"
    /\ fileCache' = [k \in Keys |-> NoHandle]
    /\ lock' = 0
    /\ procs' = [q \in Procs |->
                    IF q = p THEN [procs[q] EXCEPT !.pc = "done"]
                    ELSE IF procs[q].op \in CachedOps /\ procs[q].file = "open"
                         THEN [procs[q] EXCEPT !.file = "closed"]
                    ELSE procs[q]]
    /\ UNCHANGED <<dirs, files, locks, nextTok, appended, mutex, vmo, durable>>

\* The file of a key after n calls of AppendRecord, with status 1 and 0 in turn.
RECURSIVE Appended(_)
Appended(n) ==
    IF n = 0 THEN [dir |-> TRUE, exists |-> FALSE, data |-> <<>>, cached |-> FALSE,
                   off |-> 0, rw |-> FALSE, haslock |-> FALSE]
    ELSE AppendRecordRun(Appended(n - 1), n % 2, n).K

CallsConc(k) ==
    {Call("AppendRecord", k, 1), CallClose}
    \cup {CallCached(name, k, n, <<>>) : name \in {"GetStatus", "GetFilename"}, n \in ConcNumbers}
    \cup {CallCached(name, k, 0, <<>>) : name \in {"GetLastNumber", "GetLastUpdateNumber"}}
    \cup {CallCached("UpdateStatuses", k, 0, numbers) : numbers \in ConcLists}

\* A store reopened on a key that holds n records, and ConcProcs goroutines each
\* about to call one operation on that key.
InitConc ==
    \E n \in 0..MaxAppends :
        /\ dirs \in [Keys -> BOOLEAN]
        /\ \A k \in Keys : n > 0 => dirs[k]
        /\ files = [k \in Keys |-> [exists |-> Appended(n).exists, data |-> Appended(n).data]]
        /\ fileCache = [k \in Keys |-> WalkOpen(files[k])]
        /\ locks = {k \in Keys : files[k].exists}
        /\ nextTok = n
        /\ appended = [k \in Keys |-> n]
        /\ lock = 0
        /\ mutex = [k \in Keys |-> 0]
        /\ vmo = NoVMO
        /\ durable = files
        /\ \E k \in Keys :
              /\ procs \in [Procs -> CallsConc(k) \cup {Idle}]
              /\ \A p \in Procs : (procs[p] = Idle) <=> (p > ConcProcs)

NextConc ==
    \E p \in Procs :
        \/ A_Lock(p)
        \/ A_GetMutex(p)
        \/ A_LockKey(p)
        \/ A_MkDir(p)
        \/ A_Open(p)
        \/ A_ReadHeader(p)
        \/ A_WriteHeader(p)
        \/ A_SeekEnd(p)
        \/ A_WriteRecord(p)
        \/ A_Return(p)
        \/ E_Lock(p)
        \/ E_Open(p)
        \/ E_Unlock(p)
        \/ L_Seek0(p)
        \/ L_ReadHeader(p)
        \/ L_SeekRec(p)
        \/ L_ReadRec(p)
        \/ U_File(p)
        \/ U_GetMutex(p)
        \/ U_LockKey(p)
        \/ U_ReadHeader(p)
        \/ U_Seek(p)
        \/ U_Write(p)
        \/ U_Seek0(p)
        \/ U_WriteHeader(p)
        \/ U_Return(p)
        \/ C_Lock(p)
        \/ C_Close(p)

SpecConc == InitConc /\ [][NextConc]_vars

(***************************************************************************)
(* The earlier version of the package, which has the single-record         *)
(* UpdateStatus: the header is one uint64 (the last number), there are no  *)
(* per-key mutexes, and every operation, AppendRecord included, works on   *)
(* the cached handle.  Lookups open the file read-only.                    *)
(***************************************************************************)
headerSizeV1 == 8

RecordOffsetV1(number) == headerSizeV1 + (number - 1) * recordSize

\* file, exists := ng.fileCache[primaryKey]; if !exists { os.Open / os.OpenFile }
\* Without O_CREATE the open fails unless the file exists.
V1_Open(K, rw, create) ==
    IF K.cached THEN Result(K, 0, "")
    ELSE IF create
         THEN Result([K EXCEPT !.dir = TRUE, !.exists = TRUE, !.cached = TRUE,
                               !.off = 0, !.rw = TRUE], 0, "")
    ELSE IF ~K.exists THEN Result(K, 0, "ENOENT")
    ELSE Result([K EXCEPT !.cached = TRUE, !.off = 0, !.rw = rw], 0, "")

V1_GetLastNumberRun(K) ==
    LET o == V1_Open(K, FALSE, FALSE) IN
    IF o.err # "" THEN Result(o.K, U64(0), o.err)
    ELSE LET rd == ReadFull(o.K.data, 0, headerSizeV1)
         IN  Result([o.K EXCEPT !.off = rd.off],
                    IF rd.err = "" THEN rd.bytes ELSE U64(0), rd.err)

V1_UpdateStatusRun(K, number, newStatus) ==
    LET o == V1_Open(K, TRUE, FALSE) IN
    IF o.err # "" THEN Result(o.K, 0, o.err)
    ELSE LET offset == RecordOffsetV1(number) + 8
         IN  IF SeekErr(offset) THEN Result(o.K, 0, "EINVAL")
             ELSE IF ~o.K.rw THEN Result([o.K EXCEPT !.off = offset], 0, "EBADF")
             ELSE Result([o.K EXCEPT !.data = WriteAt(@, offset, <<newStatus>>),
                                     !.off = offset + 1], 0, "")

V1_AppendRecordRun(K, status, tok) ==
    LET o == V1_Open(K, TRUE, TRUE)
        rd == ReadFull(o.K.data, 0, headerSizeV1)
    IN  IF rd.err \notin {"", "EOF"} THEN Result([o.K EXCEPT !.off = rd.off], U64(0), rd.err)
        ELSE IF ~o.K.rw THEN Result([o.K EXCEPT !.off = 0], U64(0), "EBADF")
        ELSE LET lastNumber == U64Inc(IF rd.err = "" THEN rd.bytes ELSE U64(0))
                 d1 == WriteAt(o.K.data, 0, lastNumber)
                 record == [Number |-> lastNumber, Status |-> status,
                            Filename |-> UUIDString(tok)]
                 d2 == WriteAt(d1, Len(d1), EncodeRecord(record))
             IN  Result([o.K EXCEPT !.data = d2, !.off = Len(d2)], lastNumber, "")

V1_ReadRecord(K, number) ==
    LET o == V1_Open(K, FALSE, FALSE) IN
    IF o.err # "" THEN [K |-> o.K, rec |-> DecodeRecord(Zeros(recordSize)), err |-> o.err]
    ELSE IF SeekErr(RecordOffsetV1(number))
         THEN [K |-> o.K, rec |-> DecodeRecord(Zeros(recordSize)), err |-> "EINVAL"]
    ELSE LET rd == ReadFull(o.K.data, RecordOffsetV1(number), recordSize)
         IN  [K |-> [o.K EXCEPT !.off = rd.off],
              rec |-> IF rd.err = "" THEN DecodeRecord(rd.bytes)
                      ELSE DecodeRecord(Zeros(recordSize)),
              err |-> rd.err]

V1_GetStatusRun(K, number) ==
    LET r == V1_ReadRecord(K, number)
    IN  Result(r.K, IF r.err = "" THEN r.rec.Status ELSE 0, r.err)

V1_GetFilenameRun(K, number) ==
    LET r == V1_ReadRecord(K, number)
    IN  Result(r.K, IF r.err = "" THEN r.rec.Filename ELSE <<>>, r.err)

V1_AppendRecord(k, status) ==
    /\ appended[k] < MaxAppends
    /\ LET r == V1_AppendRecordRun(View(k), status, nextTok + 1)
       IN  /\ Apply(k, r.K)
           /\ nextTok' = IF r.err = "" THEN nextTok + 1 ELSE nextTok
           /\ appended' = IF r.err = "" THEN [appended EXCEPT ![k] = @ + 1] ELSE appended
           /\ UNCHANGED <<conc, vmo, durable>>

V1_UpdateStatus(k, number, newStatus) ==
    /\ Apply(k, V1_UpdateStatusRun(View(k), number, newStatus).K)
    /\ UNCHANGED <<nextTok, appended, lock, mutex, procs, vmo, durable>>

V1_GetStatus(k, number) ==
    /\ Apply(k, V1_GetStatusRun(View(k), number).K)
    /\ UNCHANGED <<nextTok, appended, lock, mutex, procs, vmo, durable>>

V1_GetFilename(k, number) ==
    /\ Apply(k, V1_GetFilenameRun(View(k), number).K)
    /\ UNCHANGED <<nextTok, appended, lock, mutex, procs, vmo, durable>>

V1_GetLastNumber(k) ==
    /\ Apply(k, V1_GetLastNumberRun(View(k)).K)
    /\ UNCHANGED <<nextTok, appended, lock, mutex, procs, vmo, durable>>

\* file.Close() and delete(ng.fileCache, primaryKey) for every cached key
V1_CloseAllFiles ==
    /\ fileCache' = [k \in Keys |-> NoHandle]
    /\ UNCHANGED <<dirs, files, locks, nextTok, appended, lock, mutex, procs, vmo, durable>>

InitV1 ==
    /\ dirs \in [Keys -> BOOLEAN]
    /\ files = [k \in Keys |-> NoFile]
    /\ fileCache = [k \in Keys |-> NoHandle]
    /\ locks = {}
    /\ nextTok = 0
    /\ appended = [k \in Keys |-> 0]
    /\ lock = 0
    /\ mutex = [k \in Keys |-> 0]
    /\ vmo = NoVMO
    /\ durable = files
    /\ procs = [p \in Procs |-> Idle]

NextV1 ==
    \/ \E k \in Keys, status \in StatusBytes : V1_AppendRecord(k, status)
    \/ \E k \in Keys, number \in Numbers, newStatus \in StatusBytes :
          V1_UpdateStatus(k, number, newStatus)
    \/ \E k \in Keys, number \in Numbers : V1_GetStatus(k, number)
    \/ \E k \in Keys, number \in Numbers : V1_GetFilename(k, number)
    \/ \E k \in Keys : V1_GetLastNumber(k)
    \/ V1_CloseAllFiles

SpecV1 == InitV1 /\ [][NextV1]_vars

(***************************************************************************)
(* The mutating operations of the earlier version step by step, for calls  *)
(* on one key that run concurrently.  They take ng.lock around the cache   *)
(* lookup and the open, and no other lock; all work on the cached handle   *)
(* and share its offset.                                                   *)
(***************************************************************************)
CallV1(name, k, number, status) ==
    [op |-> name, key |-> k, pc |-> "v_open", number |-> number, status |-> status,
     lastNumber |-> U64(0), ret |-> U64(0), err |-> ""]

\* ng.lock.Lock(); file, exists := ng.fileCache[primaryKey]; if !exists, open the file
\* (AppendRecord: MkdirAll and O_RDWR|O_CREATE; UpdateStatus: O_RDWR) and cache it;
\* ng.lock.Unlock()
V_Open(p) ==
    /\ procs[p].op \in {"V1_AppendRecord", "V1_UpdateStatus"} /\ procs[p].pc = "v_open"
    /\ LockFree
    /\ LET k == procs[p].key
           o == V1_Open(View(k), TRUE, procs[p].op = "V1_AppendRecord")
       IN  /\ Apply(k, o.K)
           /\ procs' = [procs EXCEPT
                 ![p].err = o.err,
                 ![p].pc = CASE o.err # "" -> "done"
                             [] procs[p].op = "V1_AppendRecord" -> "va_seek0"
                             [] OTHER -> "vu_seek"]
    /\ UNCHANGED <<nextTok, appended, lock, mutex, vmo, durable>>

\* AppendRecord: file.Seek(0, io.SeekStart), before the read and before the write of
\* the last number
VA_Seek0(p) ==
    /\ procs[p].op = "V1_AppendRecord" /\ procs[p].pc \in {"va_seek0", "va_seekw"}
    /\ fileCache' = [fileCache EXCEPT ![procs[p].key].off = 0]
    /\ Goto(p, IF procs[p].pc = "va_seek0" THEN "va_read" ELSE "va_write")
    /\ UNCHANGED <<dirs, files, locks, nextTok, appended, lock, mutex, vmo, durable>>

\* binary.Read(file, binary.BigEndian, &lastNumber) at the handle's offset;
\* lastNumber++
VA_Read(p) ==
    /\ procs[p].op = "V1_AppendRecord" /\ procs[p].pc = "va_read"
    /\ LET k == procs[p].key
           rd == ReadFull(files[k].data, fileCache[k].off, headerSizeV1)
       IN  /\ fileCache' = [fileCache EXCEPT ![k].off = rd.off]
           /\ procs' = [procs EXCEPT
                 ![p].lastNumber = U64Inc(IF rd.err = "" THEN rd.bytes ELSE U64(0)),
                 ![p].err = IF rd.err = "EOF" THEN "" ELSE rd.err,
                 ![p].pc = IF rd.err \in {"", "EOF"} THEN "va_seekw" ELSE "done"]
    /\ UNCHANGED <<dirs, files, locks, nextTok, appended, lock, mutex, vmo, durable>>

\* binary.Write(file, binary.BigEndian, lastNumber) at the handle's offset
VA_Write(p) ==
    /\ procs[p].op = "V1_AppendRecord" /\ procs[p].pc = "va_write"
    /\ LET k == procs[p].key
       IN  IF ~fileCache[k].rw THEN Fail(p, "EBADF") /\ UNCHANGED <<files, fileCache>>
           ELSE /\ files' = [files EXCEPT
                                ![k].data = WriteAt(@, fileCache[k].off, procs[p].lastNumber)]
                /\ fileCache' = [fileCache EXCEPT ![k].off = @ + headerSizeV1]
                /\ Goto(p, "va_seekend")
    /\ UNCHANGED <<dirs, locks, nextTok, appended, lock, mutex, vmo, durable>>

\* file.Seek(0, io.SeekEnd)
VA_SeekEnd(p) ==
    /\ procs[p].op = "V1_AppendRecord" /\ procs[p].pc = "va_seekend"
    /\ fileCache' = [fileCache EXCEPT ![procs[p].key].off = Len(files[procs[p].key].data)]
    /\ Goto(p, "va_writerec")
    /\ UNCHANGED <<dirs, files, locks, nextTok, appended, lock, mutex, vmo, durable>>

\* uuid.NewRandom(); binary.Write(file, &record) at the handle's offset; file.Sync();
\* return lastNumber, nil
VA_WriteRecord(p) ==
    /\ procs[p].op = "V1_AppendRecord" /\ procs[p].pc = "va_writerec"
    /\ LET k == procs[p].key
           record == [Number |-> procs[p].lastNumber, Status |-> procs[p].status,
                      Filename |-> UUIDString(nextTok + 1)]
       IN  /\ files' = [files EXCEPT
                           ![k].data = WriteAt(@, fileCache[k].off, EncodeRecord(record))]
           /\ fileCache' = [fileCache EXCEPT ![k].off = @ + recordSize]
           /\ procs' = [procs EXCEPT ![p].ret = procs[p].lastNumber, ![p].pc = "done"]
           /\ appended' = [appended EXCEPT ![k] = @ + 1]
    /\ nextTok' = nextTok + 1
    /\ UNCHANGED <<dirs, locks, lock, mutex, vmo, durable>>

\* UpdateStatus: file.Seek(headerSize + (number-1)*recordSize + 8, io.SeekStart)
VU_Seek(p) ==
    /\ procs[p].op = "V1_UpdateStatus" /\ procs[p].pc = "vu_seek"
    /\ LET offset == RecordOffsetV1(procs[p].number) + 8
       IN  IF SeekErr(offset) THEN Fail(p, "EINVAL") /\ UNCHANGED fileCache
           ELSE /\ fileCache' = [fileCache EXCEPT ![procs[p].key].off = offset]
                /\ Goto(p, "vu_write")
    /\ UNCHANGED <<dirs, files, locks, nextTok, appended, lock, mutex, vmo, durable>>

\* file.Write([]byte{newStatus}) at the handle's offset; return file.Sync()
VU_Write(p) ==
    /\ procs[p].op = "V1_UpdateStatus" /\ procs[p].pc = "vu_write"
    /\ LET k == procs[p].key
       IN  IF ~fileCache[k].rw THEN Fail(p, "EBADF") /\ UNCHANGED <<files, fileCache>>
           ELSE /\ files' = [files EXCEPT
                                ![k].data = WriteAt(@, fileCache[k].off, <<procs[p].status>>)]
                /\ fileCache' = [fileCache EXCEPT ![k].off = @ + 1]
                /\ Goto(p, "done")
    /\ UNCHANGED <<dirs, locks, nextTok, appended, lock, mutex, vmo, durable>>

\* The file of a key after n calls of the earlier AppendRecord.
RECURSIVE AppendedV1(_)
AppendedV1(n) ==
    IF n = 0 THEN [dir |-> FALSE, exists |-> FALSE, data |-> <<>>, cached |-> FALSE,
                   off |-> 0, rw |-> FALSE, haslock |-> FALSE]
    ELSE V1_AppendRecordRun(AppendedV1(n - 1), 0, n).K

CallsV1(k) ==
    {CallV1("V1_AppendRecord", k, 0, 1)}
    \cup {CallV1("V1_UpdateStatus", k, n, 1) : n \in ConcNumbers}

\* A new NumberGenerator on a key that holds n records, and ConcProcs goroutines each
\* about to call one mutating operation on that key.
InitV1Conc ==
    \E n \in 0..MaxAppends :
        /\ dirs = [k \in Keys |-> AppendedV1(n).dir]
        /\ files = [k \in Keys |-> [exists |-> AppendedV1(n).exists,
                                    data |-> AppendedV1(n).data]]
        /\ fileCache = [k \in Keys |-> NoHandle]
        /\ locks = {}
        /\ nextTok = n
        /\ appended = [k \in Keys |-> n]
        /\ lock = 0
        /\ mutex = [k \in Keys |-> 0]
        /\ vmo = NoVMO
        /\ durable = files
        /\ \E k \in Keys :
              /\ procs \in [Procs -> CallsV1(k) \cup {Idle}]
              /\ \A p \in Procs : (procs[p] = Idle) <=> (p > ConcProcs)

NextV1Conc ==
    \E p \in Procs :
        \/ V_Open(p)
        \/ VA_Seek0(p)
        \/ VA_Read(p)
        \/ VA_Write(p)
        \/ VA_SeekEnd(p)
        \/ VA_WriteRecord(p)
        \/ VU_Seek(p)
        \/ VU_Write(p)

SpecV1Conc == InitV1Conc /\ [][NextV1Conc]_vars

(***************************************************************************)
(* The sharded store of package vmoformat.  vmo.disk[i] is the shard file  *)
(* basePath_(i-1).vmo: the RecordsCount of its header and its records, in  *)
(* file order.  vmo.Files is the VMOFiles object of the running process:   *)
(* for every shard the header it holds in memory, its index Body (a map    *)
(* from hash to record) and whether its file handle can be written.        *)
(* vmo.panicked: the process has ended in a panic.                         *)
(* The source's ceiling maxRecords is 1000000; the code only compares      *)
(* RecordsCount with it, and the model works with a small ceiling.         *)
(***************************************************************************)
maxRecords == 2
NumHashes == 2
MaxAdds == 5
MaxLastNumber == 1
MaxTime == 1

Hashes == 1..NumHashes
LastNumbers == 0..MaxLastNumber
Times == 1..MaxTime

NoBody == [h \in {} |-> 0]

\* createNewVMOFile: os.Create (a handle that can be written) and a header with
\* RecordsCount 0, in memory and written to the file
NewShardFile == [RecordsCount |-> 0, records |-> <<>>]
NewShard == [RecordsCount |-> 0, Body |-> NoBody, rw |-> TRUE]

\* f.Body[hashString] = record
BodyPut(Body, record) ==
    [h \in DOMAIN Body \cup {record.MD5Hash} |->
        IF h = record.MD5Hash THEN record ELSE Body[h]]

\* The loop of loadVMOFile: the first n records of the file, put into Body in order.
RECURSIVE LoadBody(_, _)
LoadBody(records, n) ==
    IF n = 0 THEN NoBody ELSE BodyPut(LoadBody(records, n - 1), records[n])

\* loadVMOFile: os.Open (read-only), the header, then header.RecordsCount records
loadVMOFile(file) ==
    [RecordsCount |-> file.RecordsCount,
     Body |-> LoadBody(file.records, Min(file.RecordsCount, Len(file.records))),
     rw |-> FALSE]

\* NewVMOFiles: load basePath_0.vmo, basePath_1.vmo, ... while they exist; create
\* basePath_0.vmo when there is none.  A shard file shorter than its header says makes
\* loadVMOFile, and NewVMOFiles, return an error: there is no store then.
NewVMOFilesRun(disk) ==
    IF disk = <<>>
    THEN [Files |-> <<NewShard>>, disk |-> <<NewShardFile>>, panicked |-> FALSE]
    ELSE IF \E i \in 1..Len(disk) : disk[i].RecordsCount > Len(disk[i].records)
         THEN [Files |-> <<>>, disk |-> disk, panicked |-> FALSE]
    ELSE [Files |-> [i \in 1..Len(disk) |-> loadVMOFile(disk[i])], disk |-> disk,
          panicked |-> FALSE]

\* currentFile.Header.RecordsCount >= maxRecords
AtCeilingOffByOne(file) == file.RecordsCount > maxRecords
AtCeiling(file) == file.RecordsCount >= maxRecords

\* VMOFiles.AddRecord: a new shard when the last one is at the ceiling, then
\* VMOFile.AddRecord on the current shard: put the record into Body, count it, and
\* append it to the file (appendRecordToFile panics when the write fails, as it does
\* on the read-only handle of a loaded shard).
AddRecordRun(V, md5Hash, now) ==
    LET n == Len(V.Files)
        roll == AtCeiling(V.Files[n])
        Files1 == IF roll THEN Append(V.Files, NewShard) ELSE V.Files
        disk1 == IF ~roll THEN V.disk
                 ELSE IF Len(V.disk) > n THEN [V.disk EXCEPT ![n + 1] = NewShardFile]
                 ELSE Append(V.disk, NewShardFile)
        c == Len(Files1)
        record == [MD5Hash |-> md5Hash, TotalCount |-> 1, LastNumber |-> 0,
                   LastUpdated |-> now]
        Files2 == [Files1 EXCEPT ![c].Body = BodyPut(@, record),
                                 ![c].RecordsCount = @ + 1]
    IN  IF Files1[c].rw
        THEN [Files |-> Files2,
              disk |-> [disk1 EXCEPT ![c].records = Append(@, record)],
              panicked |-> FALSE]
        ELSE [Files |-> Files2, disk |-> disk1, panicked |-> TRUE]

\* findRecordByMD5: the first shard, in creation order, whose Body has the hash; 0 if none
findRecordByMD5(V, md5Hash) ==
    IF \E i \in 1..Len(V.Files) : md5Hash \in DOMAIN V.Files[i].Body
    THEN CHOOSE i \in 1..Len(V.Files) :
            /\ md5Hash \in DOMAIN V.Files[i].Body
            /\ \A j \in 1..(i - 1) : md5Hash \notin DOMAIN V.Files[j].Body
    ELSE 0

\* VMOFiles.SetLastNumber.  The position it writes at is the header size plus one
\* record size for every entry the range over file.Body yields before the entry of
\* the hash: skipped entries, which the map's iteration order decides.
SetLastNumberRun(V, md5Hash, lastNumber, now, skipped) ==
    LET i == findRecordByMD5(V, md5Hash) IN
    IF i = 0 THEN [V |-> V, err |-> "record not found"]
    ELSE LET record == [V.Files[i].Body[md5Hash] EXCEPT !.LastNumber = lastNumber,
                                                        !.LastUpdated = now]
             slot == skipped + 1
         IN  IF ~V.Files[i].rw
             THEN [V |-> [V EXCEPT !.Files[i].Body[md5Hash].LastUpdated = now],
                   err |-> "EBADF"]
             ELSE [V |-> [V EXCEPT
                            !.Files[i].Body[md5Hash] = record,
                            !.disk[i].records =
                                IF slot <= Len(@) THEN [@ EXCEPT ![slot] = record]
                                ELSE Append(@, record)],
                   err |-> ""]

\* The number of records in all shard files.
RECURSIVE DiskRecords(_)
DiskRecords(disk) ==
    IF disk = <<>> THEN 0 ELSE Len(Head(disk).records) + DiskRecords(Tail(disk))

\* The process has a store it can work on.
Running == ~vmo.panicked /\ vmo.Files # <<>>

V_AddRecord(md5Hash, now) ==
    /\ Running
    /\ DiskRecords(vmo.disk) < MaxAdds
    /\ vmo' = AddRecordRun(vmo, md5Hash, now)
    /\ UNCHANGED <<dirs, files, fileCache, locks, nextTok, appended, lock, mutex, procs, durable>>

V_SetLastNumber(md5Hash, lastNumber, now, skipped) ==
    /\ Running
    /\ findRecordByMD5(vmo, md5Hash) # 0 =>
          skipped < Cardinality(DOMAIN vmo.Files[findRecordByMD5(vmo, md5Hash)].Body)
    /\ vmo' = SetLastNumberRun(vmo, md5Hash, lastNumber, now, skipped).V
    /\ UNCHANGED <<dirs, files, fileCache, locks, nextTok, appended, lock, mutex, procs, durable>>

\* A new process opens the store on the same base path.
V_NewVMOFiles ==
    /\ vmo' = NewVMOFilesRun(vmo.disk)
    /\ UNCHANGED <<dirs, files, fileCache, locks, nextTok, appended, lock, mutex, procs, durable>>

InitVMO ==
    /\ dirs = [k \in Keys |-> FALSE]
    /\ files = [k \in Keys |-> NoFile]
    /\ fileCache = [k \in Keys |-> NoHandle]
    /\ locks = {}
    /\ nextTok = 0
    /\ appended = [k \in Keys |-> 0]
    /\ lock = 0
    /\ mutex = [k \in Keys |-> 0]
    /\ procs = [p \in Procs |-> Idle]
    /\ vmo = NewVMOFilesRun(<<>>)
    /\ durable = files

NextVMO ==
    \/ \E md5Hash \in Hashes, now \in Times : V_AddRecord(md5Hash, now)
    \/ \E md5Hash \in Hashes, lastNumber \in LastNumbers, now \in Times,
          skipped \in 0..(NumHashes - 1) :
          V_SetLastNumber(md5Hash, lastNumber, now, skipped)
    \/ V_NewVMOFiles

SpecVMO == InitVMO /\ [][NextVMO]_vars

(***************************************************************************)
(* What the claims speak of.                                               *)
(***************************************************************************)
\* totalRecords and lastUpdated of a key: the header at offset 0 of its file
\* (zero while the file holds no whole header).
HeaderOf(data) == IF Len(data) >= headerSize THEN DecodeHeader(SubSeq(data, 1, headerSize))
                  ELSE ZeroHeader
TotalRecords(data) == HeaderOf(data).TotalRecords

\* number lies in 1..totalRecords
InRange(number, data) == number >= 1 /\ ~U64Gt(U64(number), TotalRecords(data))

\* The slot of record number lies wholly within the file.
SlotPresent(data, number) ==
    number >= 1 /\ RecordOffset(number) + recordSize <= Len(data)

\* The record stored in the slot the offset formula assigns to number.
Slot(data, number) ==
    DecodeRecord(SubSeq(data, RecordOffset(number) + 1, RecordOffset(number) + recordSize))

\* The value of a uint64 below 2^31, or -1.
NatOf(b) == IF b[1] = 0 /\ b[2] = 0 /\ b[3] = 0 /\ b[4] = 0 /\ b[5] < 128
            THEN ((b[5] * 256 + b[6]) * 256 + b[7]) * 256 + b[8] ELSE -1

Elems(numbers) == {numbers[i] : i \in 1..Len(numbers)}

\* Claim C1: for every key and every sequence of store operations, the k-th
\* successful AppendRecord on the key returns k.
C1_KthAppendReturnsK ==
    \A k \in Keys, status \in StatusBytes :
        LET r == AppendRecordRun(View(k), status, nextTok + 1)
        IN  r.err = "" => r.ret = U64(appended[k] + 1)

Callers == {p \in Procs : procs[p].op = "AppendRecord"}
AllDone == \A p \in Callers : procs[p].pc = "done"

\* Claim C2: when N AppendRecord calls on one initially empty key run concurrently,
\* all N succeed and the returned sequence numbers are exactly 1..N, each once.
C2_ConcurrentAppendsCoverOneToN ==
    AllDone =>
        /\ \A p \in Callers : procs[p].err = ""
        /\ \A i \in 1..Cardinality(Callers) :
              Cardinality({p \in Callers : procs[p].ret = U64(i)}) = 1

C2_Witness ==
    /\ AllDone
    /\ Cardinality(Callers) = NumProcs
    /\ \A p \in Callers : procs[p].err = ""
    /\ {procs[p].ret : p \in Callers} = {U64(i) : i \in 1..NumProcs}

\* Claim C3: a status update changes neither the file length nor the header's
\* totalRecords, for every reachable state and every argument list.
C3_UpdateKeepsLengthAndTotal ==
    \A k \in Keys, numbers \in NumberLists :
        LET r == UpdateStatusesRun(View(k), numbers)
        IN  /\ Len(r.K.data) = Len(files[k].data)
            /\ TotalRecords(r.K.data) = TotalRecords(files[k].data)

\* Claim C4: GetLastNumber(key) returns the number of AppendRecord calls on the key
\* that returned successfully.
C4_GetLastNumberCountsAppends ==
    \A k \in Keys :
        LET r == GetLastNumberRun(View(k))
        IN  /\ r.err = "" => r.ret = U64(appended[k])
            /\ appended[k] > 0 => r.err = ""

\* Claim C5: for a list L within 1..totalRecords, after UpdateStatuses(key, L) returns
\* success GetStatus returns 1 for every record in L, the status of every record not
\* in L and every token are unchanged, and GetLastUpdateNumber returns L's last element.
C5_UpdateStatusesSetsListed ==
    \A k \in Keys, numbers \in NumberLists :
        (numbers # <<>> /\ \A n \in Elems(numbers) : InRange(n, files[k].data)) =>
            LET r == UpdateStatusesRun(View(k), numbers)
                lu == GetLastUpdateNumberRun(r.K)
            IN  r.err = "" =>
                  /\ \A n \in Elems(numbers) :
                        LET g == GetStatusRun(r.K, n) IN g.err = "" /\ g.ret = 1
                  /\ \A m \in Numbers :
                        SlotPresent(files[k].data, m) =>
                           /\ SlotPresent(r.K.data, m)
                           /\ Slot(r.K.data, m).Filename = Slot(files[k].data, m).Filename
                           /\ m \notin Elems(numbers) =>
                                 Slot(r.K.data, m).Status = Slot(files[k].data, m).Status
                  /\ lu.err = "" /\ lu.ret = U64(numbers[Len(numbers)])

\* The elements of a list before its first out-of-range element.
RECURSIVE InRangePrefix(_, _)
InRangePrefix(numbers, data) ==
    IF numbers = <<>> \/ ~InRange(Head(numbers), data) THEN <<>>
    ELSE <<Head(numbers)>> \o InRangePrefix(Tail(numbers), data)

\* Claim C6: UpdateStatuses with an element greater than totalRecords returns an error,
\* writes no byte for that element or a later one, and leaves lastUpdated alone: the
\* file then differs from before by the status bytes of earlier elements at most.
C6_OutOfRangeAbortsBatch ==
    \A k \in Keys, numbers \in NumberLists :
        (\E n \in Elems(numbers) : U64Gt(U64(n), TotalRecords(files[k].data))) =>
            LET r == UpdateStatusesRun(View(k), numbers)
                kept == InRangePrefix(numbers, files[k].data)
            IN  /\ r.err # ""
                /\ \E j \in 0..Len(kept) :
                      r.K.data = WriteStatuses([data |-> files[k].data, off |-> 0, err |-> ""],
                                               SubSeq(kept, 1, j)).data

\* Claim C7: GetFilename and GetStatus with n greater than the number of records
\* appended to the key return an error.
C7_LookupPastEndFails ==
    \A k \in Keys, n \in Numbers :
        n > appended[k] =>
            /\ GetFilenameRun(View(k), n).err # ""
            /\ GetStatusRun(View(k), n).err # ""

\* Claim C8: for 1 <= n <= totalRecords, GetFilename returns the token of record n and
\* GetStatus its status byte, whatever was done before through the cached handle;
\* GetFilename reports out-of-range only when n exceeds the header's totalRecords.
C8_LookupInRangeSucceeds ==
    \A k \in Keys, n \in Numbers :
        LET f == GetFilenameRun(View(k), n)
            g == GetStatusRun(View(k), n)
        IN  /\ (InRange(n, files[k].data) /\ SlotPresent(files[k].data, n)) =>
                  /\ f.err = "" /\ f.ret = Slot(files[k].data, n).Filename
                  /\ g.err = "" /\ g.ret = Slot(files[k].data, n).Status
            /\ f.err = "exceeds total records" =>
                  U64Gt(U64(n), TotalRecords(files[k].data))

\* Claim C9: after the single-record UpdateStatus(key, n, 1) returns success,
\* GetStatus(key, n) returns 1, and the status and token of every record other than n
\* are the same as before the call.
C9_UpdateStatusSetsOne ==
    \A k \in Keys, n \in Numbers :
        LET r == V1_UpdateStatusRun(View(k), n, 1)
            g == V1_GetStatusRun(r.K, n)
        IN  r.err = "" =>
              /\ g.err = "" /\ g.ret = 1
              /\ \A m \in Numbers \ {n} :
                    LET s0 == V1_GetStatusRun(View(k), m)
                        s1 == V1_GetStatusRun(r.K, m)
                        f0 == V1_GetFilenameRun(View(k), m)
                        f1 == V1_GetFilenameRun(r.K, m)
                    IN  /\ s1.err = s0.err /\ s1.ret = s0.ret
                        /\ f1.err = f0.err /\ f1.ret = f0.ret

\* Claim C10: after AppendRecord(key, s) returns N, record N of the key has status s
\* and a 36-byte token that differs from the token of every other record of the key.
C10_AppendedRecordReadsBack ==
    \A k \in Keys, status \in StatusBytes :
        LET r == AppendRecordRun(View(k), status, nextTok + 1)
            N == NatOf(r.ret)
        IN  r.err = "" =>
              /\ SlotPresent(r.K.data, N)
              /\ Slot(r.K.data, N).Status = status
              /\ Slot(r.K.data, N).Filename = UUIDString(nextTok + 1)
              /\ \A m \in 1..(N - 1) :
                    Slot(r.K.data, m).Filename # Slot(r.K.data, N).Filename

\* The view of key k after CloseAllFiles and a new NumberGenerator on the same root.
Reopened(k) ==
    [dir |-> dirs[k], exists |-> files[k].exists, data |-> files[k].data,
     cached |-> WalkOpen(files[k]).cached, off |-> WalkOpen(files[k]).off,
     rw |-> WalkOpen(files[k]).rw, haslock |-> files[k].exists]

C12_NoUseAfterClose ==
    \A p \in Procs :
        procs[p].op \in CachedOps => procs[p].err \notin {"ErrClosed", "ErrInvalid"}

\* Claim C13: whenever GetFilename or GetLastNumber, running concurrently with
\* AppendRecord on the same key, reads a header with totalRecords = t, records 1..t
\* are all wholly in the file at that moment.
C13_HeaderNeverAheadOfRecords ==
    \A p \in Procs :
        (/\ procs[p].op \in {"GetFilename", "GetLastNumber"} /\ procs[p].pc = "l_readhdr"
         /\ \A q \in Procs \ {p} : procs[q].op \in {"AppendRecord", "none"}) =>
            LET k == procs[p].key
                file == IF procs[p].op = "GetFilename" THEN Fetched(k) ELSE procs[p].file
                rd == ReadFull(files[k].data, fileCache[k].off, headerSize)
                t == NatOf(DecodeHeader(rd.bytes).TotalRecords)
            IN  (file = "open" /\ rd.err = "") =>
                    t >= 0 /\ Len(files[k].data) >= headerSize + t * recordSize

\* Claim C14: when the newest shard's RecordsCount is the ceiling maxRecords, the next
\* VMOFiles.AddRecord creates one new shard, with the next index, whose RecordsCount
\* is 1 afterwards, and leaves the previous shard's RecordsCount at the ceiling;
\* while the newest shard is below the ceiling AddRecord creates no shard.
C14_ShardRollover ==
    Running =>
        \A md5Hash \in Hashes, now \in Times :
            LET V == AddRecordRun(vmo, md5Hash, now)
                n == Len(vmo.Files)
            IN  /\ vmo.Files[n].RecordsCount = maxRecords =>
                      /\ Len(V.Files) = n + 1 /\ Len(V.disk) = n + 1
                      /\ V.Files[n + 1].RecordsCount = 1
                      /\ Len(V.disk[n + 1].records) = 1
                      /\ V.Files[n].RecordsCount = maxRecords
                      /\ \A i \in 1..n : V.disk[i] = vmo.disk[i]
                /\ vmo.Files[n].RecordsCount < maxRecords =>
                      /\ Len(V.Files) = n /\ Len(V.disk) = Len(vmo.disk)
                      /\ \A i \in 1..(n - 1) : V.Files[i] = vmo.Files[i]

\* A second shard has been created by an AddRecord on a shard at the ceiling.
C14_Witness ==
    /\ Running /\ Len(vmo.Files) = 2
    /\ vmo.Files[1].RecordsCount = maxRecords /\ Len(vmo.disk[1].records) = maxRecords
    /\ vmo.Files[2].RecordsCount = 1 /\ Len(vmo.disk[2].records) = 1

\* The records with a given hash, in all shard files.
RecordsOf(md5Hash) ==
    {<<i, j>> \in (1..Len(vmo.disk)) \X (1..MaxAdds) :
        j <= Len(vmo.disk[i].records) /\ vmo.disk[i].records[j].MD5Hash = md5Hash}

\* Claim C15: after any sequence of AddRecord calls, repeated hashes included, every
\* hash occurs in at most one record across all shards, and every shard's RecordsCount
\* is the number of entries of its in-memory index.
C15_HashesUniqueAndCounted ==
    Running =>
        /\ \A md5Hash \in Hashes :
              /\ Cardinality(RecordsOf(md5Hash)) <= 1
              /\ Cardinality({i \in 1..Len(vmo.Files) : md5Hash \in DOMAIN vmo.Files[i].Body}) <= 1
        /\ \A i \in 1..Len(vmo.Files) :
              vmo.Files[i].RecordsCount = Cardinality(DOMAIN vmo.Files[i].Body)

\* Claim C16: whenever no operation on a key is in flight, the length of the key's
\* file is headerSize + totalRecords * recordSize, and every successful AppendRecord
\* grows the file by one record slot and increments totalRecords by one.
C16_LengthMatchesTotal ==
    \A k \in Keys :
        LET data == files[k].data
            t == NatOf(TotalRecords(data))
        IN  /\ Len(data) > 0 => t >= 0 /\ Len(data) = headerSize + t * recordSize
            /\ \A status \in StatusBytes :
                  LET r == AppendRecordRun(View(k), status, nextTok + 1)
                  IN  r.err = "" =>
                        /\ Len(r.K.data) = Max(Len(data), headerSize) + recordSize
                        /\ TotalRecords(r.K.data) = U64Inc(TotalRecords(data))

\* Claim C17: whenever no operation on a key is in flight, for every i in
\* 1..totalRecords the record at offset headerSize + (i - 1) * recordSize has
\* Number = i.
C17_SlotHoldsItsNumber ==
    \A k \in Keys, i \in Numbers :
        InRange(i, files[k].data) =>
            /\ SlotPresent(files[k].data, i)
            /\ Slot(files[k].data, i).Number = U64(i)

\* The positions at which a mutating operation is between its first read of the
\* key's file and its last write to it (the position names what it does next).
FileSection ==
    {"readhdr", "writehdr", "seekend", "writerec",
     "u_readhdr", "u_seek", "u_write", "u_seek0", "u_writehdr",
     "va_read", "va_seekw", "va_write", "va_seekend", "va_writerec",
     "vu_write"}
Mutators == {"AppendRecord", "UpdateStatuses", "V1_AppendRecord", "V1_UpdateStatus"}
InFileSection(p) == procs[p].op \in Mutators /\ procs[p].pc \in FileSection

\* Claim C18: AppendRecord, UpdateStatuses and the single-record UpdateStatus hold the
\* key's mutex from their first read of the file to their last write, so two
\* mutating operations on one key are never both between their first read and
\* their last write.
C18_MutatorsHoldKeyMutex ==
    \A p \in Procs :
        InFileSection(p) =>
            /\ mutex[procs[p].key] = p
            /\ \A q \in Procs \ {p} :
                  InFileSection(q) => procs[q].key # procs[p].key

\* What a lookup asked for, given the key's file.
Asked(p, data) ==
    CASE procs[p].op = "GetStatus" -> <<Slot(data, procs[p].number).Status>>
      [] procs[p].op = "GetFilename" -> Slot(data, procs[p].number).Filename
      [] procs[p].op = "GetLastNumber" -> HeaderOf(data).TotalRecords
      [] OTHER -> HeaderOf(data).LastUpdated

\* Claim C19: when only lookups run, concurrently, on a key, each lookup of an
\* existing record or of the header returns the value it asked for, whatever the
\* interleaving of their seeks and reads on the shared handle.
C19_ConcurrentLookupsReadOwnData ==
    (\A q \in Procs : procs[q].op \in LookupOps \cup {"none"}) =>
        \A p \in Procs :
            (/\ procs[p].op \in LookupOps /\ procs[p].pc = "done"
             /\ Len(files[procs[p].key].data) >= headerSize
             /\ procs[p].op \in {"GetStatus", "GetFilename"} =>
                    procs[p].number <= appended[procs[p].key]) =>
                /\ procs[p].err = ""
                /\ procs[p].ret = Asked(p, files[procs[p].key].data)

\* The steps that do file I/O: os.OpenFile in ensureFileOpen and File.Close in
\* CloseAllFiles, next to the seeks, reads and writes of the operations.
IOSteps ==
    {"e_open", "c_close", "l_seek0", "l_readhdr", "l_seekrec", "l_readrec",
     "u_readhdr", "u_seek", "u_write", "u_seek0", "u_writehdr",
     "mkdir", "open", "readhdr", "writehdr", "seekend", "writerec"}

\* Claim C20: the global lock is never held by a goroutine whose next step is file
\* I/O (open, seek, read, write, close): it covers the map accesses only.
C20_NoIOUnderGlobalLock ==
    \A p \in Procs : lock = p => procs[p].pc \notin IOSteps

\* A goroutine whose next step reads or writes ng.locks or ng.fileCache: the mutex
\* lookups of AppendRecord and UpdateStatuses, the open and the close that fill and
\* empty the cache, and file := ng.fileCache[primaryKey] of the lookups.
MapAccess(p) ==
    \/ procs[p].pc \in {"getmutex", "e_open", "c_close", "l_seek0", "u_getmutex"}
    \/ procs[p].op \in {"GetStatus", "GetFilename"} /\ procs[p].pc = "l_readhdr"

\* Claim C21: every read and every write of the lock-set map and of the handle-cache
\* map is made by the goroutine that holds the global lock, and a key's mutex, once
\* in the lock set, is never removed.
C21_MapsUnderGlobalLock ==
    /\ \A p \in Procs : MapAccess(p) => lock = p
    /\ \A k \in Keys : fileCache[k].cached \/ mutex[k] # 0 => k \in locks

\* What a step of goroutine p may do to the handle cache.
CacheStep(p) ==
    /\ procs[p].pc = "e_lock" /\ procs'[p].pc # "e_lock" =>
           IF fileCache[procs[p].key].cached
           THEN procs'[p].pc = "e_unlock" /\ fileCache' = fileCache /\ files' = files
           ELSE procs'[p].pc = "e_open"
    /\ procs[p].pc = "e_open" /\ procs'[p].pc # "e_open" =>
           /\ ~fileCache[procs[p].key].cached
           /\ fileCache'[procs[p].key].cached => fileCache'[procs[p].key].off = 0
           /\ \A k \in Keys \ {procs[p].key} : fileCache'[k] = fileCache[k]
    /\ procs[p].pc = "c_close" /\ procs'[p].pc = "done" =>
           /\ \A k \in Keys : ~fileCache'[k].cached
           /\ \A q \in Procs : procs'[q].op \in CachedOps => procs'[q].file # "open"

\* Claim C22: ensureFileOpen on a key in the cache opens nothing and leaves the cache
\* as it is, it opens a handle (fresh, at offset 0) only for a key that is not in the
\* cache, and when CloseAllFiles returns the cache is empty and every handle that was
\* in it is closed.
C22_CacheHoldsOpenHandles == [][\A p \in Procs : CacheStep(p)]_vars

\* CloseAllFiles has returned and an operation after it has opened the key again.
C22_Witness ==
    \E p, q \in Procs :
        /\ procs[p].op = "CloseAllFiles" /\ procs[p].pc = "done"
        /\ procs[q].op \in CachedOps /\ procs[q].file = "open"
        /\ fileCache[procs[q].key].cached

(***************************************************************************)
(* AppendRecord and a crash.  write(2) changes the page cache; stable      *)
(* storage follows when the kernel writes the file back, which without     *)
(* File.Sync happens at a time of the kernel's choosing.  AppendRecord     *)
(* (numbergenerator.go:151-220) calls no Sync; its deferred Close does not *)
(* flush.  A crash loses the page cache and every running goroutine; the   *)
(* results already returned to callers stay known.                         *)
(***************************************************************************)
CrashAppends == 1

\* The kernel writes the dirty pages of a key's file to stable storage.
Writeback(k) ==
    /\ durable[k] # files[k]
    /\ durable' = [durable EXCEPT ![k] = files[k]]
    /\ UNCHANGED <<dirs, files, fileCache, locks, nextTok, appended, lock, mutex, procs, vmo>>

\* The machine goes down: what was not written back is gone.
Crash ==
    /\ files # durable \/ \E p \in Procs : procs[p].pc \notin {"done", "idle"}
    /\ files' = durable
    /\ fileCache' = [k \in Keys |-> NoHandle]
    /\ locks' = {}
    /\ lock' = 0
    /\ mutex' = [k \in Keys |-> 0]
    /\ procs' = [p \in Procs |-> IF procs[p].pc = "done" THEN procs[p] ELSE Idle]
    /\ UNCHANGED <<dirs, nextTok, appended, vmo, durable>>

\* A store whose key holds up to CrashAppends records, all on stable storage, and
\* up to ConcProcs goroutines each about to call AppendRecord on that key.
InitCrash ==
    \E n \in 0..CrashAppends :
        /\ dirs \in [Keys -> BOOLEAN]
        /\ \A k \in Keys : n > 0 => dirs[k]
        /\ files = [k \in Keys |-> [exists |-> Appended(n).exists, data |-> Appended(n).data]]
        /\ fileCache = [k \in Keys |-> WalkOpen(files[k])]
        /\ locks = {k \in Keys : files[k].exists}
        /\ nextTok = n
        /\ appended = [k \in Keys |-> n]
        /\ lock = 0
        /\ mutex = [k \in Keys |-> 0]
        /\ vmo = NoVMO
        /\ durable = files
        /\ \E m \in 1..ConcProcs, k \in Keys :
              /\ procs \in [Procs -> {Call("AppendRecord", k, st) : st \in StatusBytes} \cup {Idle}]
              /\ \A p \in Procs : (procs[p] = Idle) <=> (p > m)

NextCrash ==
    \/ \E p \in Procs :
          \/ A_Lock(p)
          \/ A_GetMutex(p)
          \/ A_LockKey(p)
          \/ A_MkDir(p)
          \/ A_Open(p)
          \/ A_ReadHeader(p)
          \/ A_WriteHeader(p)
          \/ A_SeekEnd(p)
          \/ A_WriteRecord(p)
          \/ A_Return(p)
    \/ \E k \in Keys : Writeback(k)
    \/ Crash

SpecCrash == InitCrash /\ [][NextCrash]_vars

\* Claim C23: once AppendRecord has returned N without error, stable storage holds
\* a header with totalRecords >= N and the whole of record N, so that a crash at
\* any later point keeps both.
C23_ReturnedAppendIsDurable ==
    \A p \in Procs :
        procs[p].op = "AppendRecord" /\ procs[p].pc = "done" /\ procs[p].err = "" =>
            LET data == durable[procs[p].key].data
                N == NatOf(procs[p].ret)
            IN  /\ ~U64Gt(procs[p].ret, TotalRecords(data))
                /\ SlotPresent(data, N)
                /\ Slot(data, N).Number = procs[p].ret

(***************************************************************************)
(* A store opened on a data.bin that is shorter than a header, such as a   *)
(* first append leaves behind when only part of its header reached the     *)
(* disk.                                                                   *)
(***************************************************************************)
FillBytes == 0..1

\* NewNumberGenerator on a base directory whose key holds a file of len < headerSize
\* bytes.
InitShort ==
    \E len \in 0..(headerSize - 1), b \in FillBytes :
        /\ dirs = [k \in Keys |-> TRUE]
        /\ files = [k \in Keys |-> [exists |-> TRUE, data |-> [i \in 1..len |-> b]]]
        /\ fileCache = [k \in Keys |-> WalkOpen(files[k])]
        /\ locks = Keys
        /\ nextTok = 0
        /\ appended = [k \in Keys |-> 0]
        /\ lock = 0
        /\ mutex = [k \in Keys |-> 0]
        /\ procs = [p \in Procs |-> Idle]
        /\ vmo = NoVMO
        /\ durable = files

NextShort ==
    \/ \E k \in Keys, status \in StatusBytes : AppendRecord(k, status)
    \/ \E k \in Keys, number \in Numbers : GetStatus(k, number)
    \/ \E k \in Keys : GetLastNumber(k)
    \/ CloseAllFiles
    \/ NewNumberGenerator

SpecShort == InitShort /\ [][NextShort]_vars

\* Claim C24: on a file of 0 to headerSize - 1 bytes AppendRecord succeeds, returns 1
\* and leaves a header with totalRecords = 1 and lastUpdated = 0: the short file
\* counts as an all-zero header.
C24_ShortFileIsEmptyHeader ==
    \A k \in Keys, status \in StatusBytes :
        files[k].exists /\ Len(files[k].data) < headerSize =>
            LET r == AppendRecordRun(View(k), status, nextTok + 1)
            IN  /\ r.err = ""
                /\ r.ret = U64(1)
                /\ HeaderOf(r.K.data) = [TotalRecords |-> U64(1), LastUpdated |-> U64(0)]

LastUpdated(data) == HeaderOf(data).LastUpdated

\* Claim C25: the header's lastUpdated is 0 after the first successful append on a
\* key, every later AppendRecord and every lookup leave it as it is, and
\* UpdateStatuses sets it to the last element of its list when it succeeds and
\* leaves it as it is when it fails.
C25_LastUpdatedFrame ==
    \A k \in Keys :
        LET lu == LastUpdated(files[k].data)
        IN  /\ \A status \in StatusBytes :
                  LET r == AppendRecordRun(View(k), status, nextTok + 1)
                  IN  r.err = "" =>
                        LastUpdated(r.K.data) = IF appended[k] = 0 THEN U64(0) ELSE lu
            /\ \A number \in Numbers :
                  /\ LastUpdated(GetStatusRun(View(k), number).K.data) = lu
                  /\ LastUpdated(GetFilenameRun(View(k), number).K.data) = lu
            /\ LastUpdated(GetLastNumberRun(View(k)).K.data) = lu
            /\ LastUpdated(GetLastUpdateNumberRun(View(k)).K.data) = lu
            /\ \A numbers \in NumberLists :
                  LET r == UpdateStatusesRun(View(k), numbers)
                  IN  LastUpdated(r.K.data) =
                         IF r.err = "" /\ numbers # <<>> THEN U64(numbers[Len(numbers)])
                         ELSE lu

\* GetTotalRecords: the sum of Header.RecordsCount over the shards in memory
RECURSIVE GetTotalRecords(_)
GetTotalRecords(Files) ==
    IF Files = <<>> THEN 0 ELSE Head(Files).RecordsCount + GetTotalRecords(Tail(Files))

\* Claim C26: while the store runs, the header on disk of every shard file has a
\* RecordsCount equal to the number of records appended to that file, and a store
\* opened anew on the same base path has the same number of shards, the same
\* RecordsCount and the same hashes in each, and the same GetTotalRecords.
C26_ShardsReopenAlike ==
    Running =>
        LET R == NewVMOFilesRun(vmo.disk)
        IN  /\ \A i \in 1..Len(vmo.disk) :
                  vmo.disk[i].RecordsCount = Len(vmo.disk[i].records)
            /\ Len(R.Files) = Len(vmo.Files)
            /\ \A i \in 1..Len(vmo.Files) :
                  /\ R.Files[i].RecordsCount = vmo.Files[i].RecordsCount
                  /\ DOMAIN R.Files[i].Body = DOMAIN vmo.Files[i].Body
            /\ GetTotalRecords(R.Files) = GetTotalRecords(vmo.Files)

\* Claim C27: SetLastNumber on a hash that a shard holds, when it succeeds, leaves
\* the length of the shard file and every record of another hash in it as they
\* were, whatever the order in which the range over the shard's Body yields its
\* entries.
C27_SetLastNumberWritesOwnSlot ==
    Running =>
        \A md5Hash \in Hashes, lastNumber \in LastNumbers, now \in Times :
            LET i == findRecordByMD5(vmo, md5Hash)
            IN  i # 0 =>
                  \A skipped \in 0..(Cardinality(DOMAIN vmo.Files[i].Body) - 1) :
                      LET r == SetLastNumberRun(vmo, md5Hash, lastNumber, now, skipped)
                          before == vmo.disk[i].records
                          after == r.V.disk[i].records
                      IN  r.err = "" =>
                            /\ Len(after) = Len(before)
                            /\ \A j \in 1..Len(before) :
                                  before[j].MD5Hash # md5Hash => after[j] = before[j]

(***************************************************************************)
(* The operations of three goroutines on one key, with the unsynchronised  *)
(* map accesses.  The lookups read ng.fileCache, and UpdateStatuses reads  *)
(* ng.locks, without ng.lock.  When such a read runs while another         *)
(* goroutine assigns to the same map (under ng.lock, which the reader did  *)
(* not take), the two accesses race; a race on a Go map has the outcomes   *)
(* of the accesses in either order, which the steps above give, and the    *)
(* runtime's "fatal error: concurrent map read and map write", which ends  *)
(* the process with every call in it.                                      *)
(***************************************************************************)
\* The map the next step of p reads without holding ng.lock.
ReadsUnlocked(p) ==
    CASE procs[p].op \in LookupOps /\ procs[p].pc = "l_seek0" -> "fileCache"
      [] procs[p].op \in {"GetStatus", "GetFilename"} /\ procs[p].pc = "l_readhdr" -> "fileCache"
      [] procs[p].op = "UpdateStatuses" /\ procs[p].pc = "u_getmutex" -> "locks"
      [] OTHER -> "none"

\* The maps the next step of q assigns an entry of.
WritesMap(q) ==
    CASE procs[q].op \in CachedOps /\ procs[q].pc = "e_open" /\ dirs[procs[q].key] ->
             {"fileCache"} \cup (IF procs[q].key \in locks THEN {} ELSE {"locks"})
      [] procs[q].op = "AppendRecord" /\ procs[q].pc = "getmutex"
           /\ procs[q].key \notin locks -> {"locks"}
      [] procs[q].op = "UpdateStatuses" /\ procs[q].pc = "u_getmutex"
           /\ procs[q].key \notin locks -> {"locks"}
      [] OTHER -> {}

\* The runtime detects the read of p during the assignment of q and throws.
MapRace(p, q) ==
    /\ p # q
    /\ ReadsUnlocked(p) \in WritesMap(q)
    /\ procs' = [r \in Procs |->
                    IF procs[r].pc \in {"done", "idle"} THEN procs[r]
                    ELSE [procs[r] EXCEPT !.pc = "fatal"]]
    /\ UNCHANGED <<dirs, files, fileCache, locks, nextTok, appended, lock, mutex, vmo, durable>>

CallsRace(k) ==
    {Call("AppendRecord", k, 1), CallClose,
     CallCached("GetLastNumber", k, 0, <<>>), CallCached("GetStatus", k, 1, <<>>),
     CallCached("UpdateStatuses", k, 0, <<1>>)}

\* A store reopened on a key that holds one record, and every goroutine about to
\* call one operation on that key.
InitRace ==
    /\ dirs = [k \in Keys |-> TRUE]
    /\ files = [k \in Keys |-> [exists |-> Appended(1).exists, data |-> Appended(1).data]]
    /\ fileCache = [k \in Keys |-> WalkOpen(files[k])]
    /\ locks = Keys
    /\ nextTok = 1
    /\ appended = [k \in Keys |-> 1]
    /\ lock = 0
    /\ mutex = [k \in Keys |-> 0]
    /\ vmo = NoVMO
    /\ durable = files
    /\ \E k \in Keys : procs \in [Procs -> CallsRace(k)]

NextRace ==
    \/ NextConc
    \/ \E p, q \in Procs : MapRace(p, q)

SpecRace == InitRace /\ [][NextRace]_vars

WaitsForMutex(p) == procs[p].pc \in {"lockkey", "u_lockkey"}
WaitsForLock(p) == procs[p].pc \in {"lock", "e_lock", "u_file", "c_lock"}
Returned(p) == procs[p].pc \in {"done", "idle"}

\* Claim C28: no goroutine waits for a key's mutex while it holds the global lock,
\* none waits for the global lock while it holds a key's mutex, and as long as a
\* call has not returned some goroutine can take a step: the calls, finite in
\* number and in length, never get stuck, so that each of them returns.
C28_CallsNeverStuck ==
    /\ \A p \in Procs : WaitsForMutex(p) => lock # p
    /\ \A p \in Procs : WaitsForLock(p) => \A k \in Keys : mutex[k] # p
    /\ (\E p \in Procs : ~Returned(p)) => ENABLED NextRace

\* The operation's result leaves the key's file on disk as it is.
SameFile(r, k) == r.K.exists = files[k].exists /\ r.K.data = files[k].data

\* Claim C29: a lookup, successful or not, on any key, appended to or not and with
\* or without its directory, creates no file and changes no byte and no length.
C29_LookupsLeaveDiskAlone ==
    \A k \in Keys :
        /\ SameFile(GetLastNumberRun(View(k)), k)
        /\ SameFile(GetLastUpdateNumberRun(View(k)), k)
        /\ \A number \in Numbers :
              /\ SameFile(GetStatusRun(View(k), number), k)
              /\ SameFile(GetFilenameRun(View(k), number), k)

====
